---- MODULE Spec2Model ----
(***************************************************************************)
(* Heading pipeline of the compass screen (src/App.js, CompassApp).        *)
(*                                                                         *)
(* Angles are fixed-point integers: one unit is 1/Scale of a degree (half  *)
(* a degree at Res = 1), so the 22.5-degree sector limits and the headings *)
(* produced by the modelled samples are exact.  The only inexact operation *)
(* is `delta * 0.3`, which is rounded to the nearest unit (ties to even),  *)
(* as IEEE-754 rounds it to the nearest double.  NaN is a reserved value   *)
(* outside the range of any angle; every arithmetic step and comparison    *)
(* treats it as JavaScript does (arithmetic yields NaN, comparisons are    *)
(* false).                                                                 *)
(***************************************************************************)
EXTENDS Integers, Sequences, FiniteSets, TLC

\* Resolution of the angle grid: Scale units per degree.
Res == 1
Scale == 2 * Res

\* getCardinalDirection is exercised on every grid angle of
\* [-360 * MaxTurns, 360 * MaxTurns] degrees.
MaxTurns == 3

Deg(d) == d * Scale
\* h half-degrees, in units (22.5 degrees is Half(45)).
Half(h) == h * (Scale \div 2)

NaN == -99999999
IsNaN(v) == v = NaN

Abs(v) == IF v >= 0 THEN v ELSE -v

\* JavaScript `a % m` for m > 0: truncated division, sign of the dividend.
JsMod(a, m) == IF a >= 0 THEN a % m ELSE -((-a) % m)

\* n / d rounded to the nearest integer, ties to even (d > 0).
RoundDiv(n, d) ==
  LET q == n \div d
      r == n - q * d
  IN IF 2 * r < d THEN q
     ELSE IF 2 * r > d THEN q + 1
     ELSE IF q % 2 = 0 THEN q ELSE q + 1

----------------------------------------------------------------------------
\* Constant tables

CARDINAL_DIRECTIONS ==
  << [label |-> "N",  min |-> Half(675), max |-> Half(45)],
     [label |-> "NE", min |-> Half(45),  max |-> Half(135)],
     [label |-> "E",  min |-> Half(135), max |-> Half(225)],
     [label |-> "SE", min |-> Half(225), max |-> Half(315)],
     [label |-> "S",  min |-> Half(315), max |-> Half(405)],
     [label |-> "SW", min |-> Half(405), max |-> Half(495)],
     [label |-> "W",  min |-> Half(495), max |-> Half(585)],
     [label |-> "NW", min |-> Half(585), max |-> Half(675)] >>

PRIMARY_DIRECTIONS == {"N", "E", "S", "W"}

----------------------------------------------------------------------------
\* getCardinalDirection

\* The predicate handed to CARDINAL_DIRECTIONS.find.
MatchesInclusiveMax(dir, normalizedAngle) ==
  IF dir.min > dir.max
    THEN normalizedAngle >= dir.min \/ normalizedAngle <= dir.max
    ELSE normalizedAngle >= dir.min /\ normalizedAngle <= dir.max

\* The predicate with a range's min left out of the range.
MatchesAboveMin(dir, normalizedAngle) ==
  IF dir.min > dir.max
    THEN normalizedAngle > dir.min \/ normalizedAngle < dir.max
    ELSE normalizedAngle > dir.min /\ normalizedAngle < dir.max

Matches(dir, normalizedAngle) ==
  IF dir.min > dir.max
    THEN normalizedAngle >= dir.min \/ normalizedAngle < dir.max
    ELSE normalizedAngle >= dir.min /\ normalizedAngle < dir.max

\* (currentAngle + 360) % 360
Normalize(currentAngle) ==
  IF IsNaN(currentAngle) THEN NaN
  ELSE JsMod(currentAngle + Deg(360), Deg(360))

\* CARDINAL_DIRECTIONS.find from index i on: the label of the first matching
\* entry, "" when there is none (a comparison with NaN is false).
RECURSIVE Find(_, _)
Find(i, normalizedAngle) ==
  IF i > Len(CARDINAL_DIRECTIONS) \/ IsNaN(normalizedAngle) THEN ""
  ELSE IF Matches(CARDINAL_DIRECTIONS[i], normalizedAngle)
    THEN CARDINAL_DIRECTIONS[i].label
    ELSE Find(i + 1, normalizedAngle)

getCardinalDirection(currentAngle) == Find(1, Normalize(currentAngle))

----------------------------------------------------------------------------
\* Magnetometer samples

\* Values of one component (x or y) of a sample.
Components == {"NaN", "-Infinity", "-1", "0", "1", "Infinity"}

IsInf(c) == c \in {"-Infinity", "Infinity"}
Sign(c) == IF c \in {"-Infinity", "-1"} THEN -1
           ELSE IF c = "0" THEN 0 ELSE 1
NonFinite(x, y) == x \notin {"-1", "0", "1"} \/ y \notin {"-1", "0", "1"}

\* Math.atan2(y, x) * (180 / Math.PI), in units, on the modelled components.
\* Finite components lie on the eight octant directions; an infinite
\* component dominates a finite one.
Atan2Deg(y, x) ==
  IF y = "NaN" \/ x = "NaN" THEN NaN
  ELSE IF IsInf(y) /\ ~IsInf(x) THEN Deg(Sign(y) * 90)
  ELSE IF IsInf(x) /\ ~IsInf(y)
    THEN IF Sign(x) > 0 THEN 0
         ELSE IF Sign(y) < 0 THEN Deg(-180) ELSE Deg(180)
  ELSE LET sy == Sign(y)
           sx == Sign(x)
       IN IF sy = 0 THEN (IF sx < 0 THEN Deg(180) ELSE 0)
          ELSE IF sx > 0 THEN Deg(sy * 45)
          ELSE IF sx = 0 THEN Deg(sy * 90)
          ELSE Deg(sy * 135)

\* heading = heading >= 0 ? heading : 360 + heading
Heading(y, x) ==
  LET heading == Atan2Deg(y, x)
  IN IF IsNaN(heading) THEN NaN
     ELSE IF heading >= 0 THEN heading ELSE Deg(360) + heading

----------------------------------------------------------------------------
\* Smoothing

\* delta = heading - currentValue without the 360-0 correction.
UncorrectedDelta(heading, currentValue) ==
  IF IsNaN(heading) \/ IsNaN(currentValue) THEN NaN
  ELSE heading - currentValue

\* delta = heading - currentValue, then the 360-0 correction.
CorrectedDelta(heading, currentValue) ==
  IF IsNaN(heading) \/ IsNaN(currentValue) THEN NaN
  ELSE LET delta == heading - currentValue
       IN IF Abs(delta) > Deg(180)
            THEN (IF delta > 0 THEN delta - Deg(360) ELSE delta + Deg(360))
            ELSE delta

\* delta * 0.3
Damped(delta) == IF IsNaN(delta) THEN NaN ELSE RoundDiv(3 * delta, 10)

\* newAngle without the final `% 360`.
NewAngleNoMod(currentValue, heading) ==
  LET delta == CorrectedDelta(heading, currentValue)
  IN IF IsNaN(delta) THEN NaN
     ELSE currentValue + Damped(delta)

\* newAngle = (currentValue + delta * 0.3) % 360
NewAngle(currentValue, heading) ==
  LET delta == CorrectedDelta(heading, currentValue)
  IN IF IsNaN(delta) THEN NaN
     ELSE JsMod(currentValue + Damped(delta), Deg(360))

\* Whether the listener calls Haptics.impactAsync for newDirection.
FiresAlways(newDirection, last) == newDirection # last

Fires(newDirection, last) ==
  newDirection \in PRIMARY_DIRECTIONS /\ newDirection # last

\* The listener without `lastDirection = newDirection`.
Forgets(newDirection, last) == last

\* lastDirection after the listener has handled newDirection.
Remembers(newDirection, last) ==
  IF Fires(newDirection, last) THEN newDirection ELSE last

----------------------------------------------------------------------------
VARIABLES
  angle,          \* React state `angle`
  currentValue,   \* `angle` as captured by the subscribed listener's closure
  lastDirection,  \* `lastDirection` of the current effect run
  subscriptions,  \* number of listeners subscribed to Magnetometer
  pulse,          \* the latest processed sample called Haptics.impactAsync
  samples,        \* 0, 1 or 2: samples processed so far, saturating at 2
  prevDirection,  \* newDirection of the sample before the latest one
  lastPrimary,    \* last primary label seen, the latest sample included
  prevPrimary,    \* last primary label seen before the latest sample
  queryAngle,     \* argument of a stand-alone getCardinalDirection call
  queryLabel,     \* its result, "pending" before the call
  smoothCall,     \* one stand-alone smoothing step: previous, rawSample and
                  \* out, <<>> before the step, <<delta, newAngle>> after it
  steady          \* {} while the sensor moves; {h} once every further sample
                  \* has the raw heading h

vars == <<angle, currentValue, lastDirection, subscriptions, pulse,
          samples, prevDirection, lastPrimary, prevPrimary,
          queryAngle, queryLabel, smoothCall, steady>>

\* useState(0) and the first run of the effect.
InitPipe ==
  /\ angle = 0
  /\ currentValue = 0
  /\ lastDirection = getCardinalDirection(0)
  /\ subscriptions = 1
  /\ pulse = FALSE
  /\ samples = 0
  /\ prevDirection = ""
  /\ lastPrimary = getCardinalDirection(0)
  /\ prevPrimary = getCardinalDirection(0)

\* No stand-alone smoothing step is under way.
NoSmoothCall == [previous |-> 0, rawSample |-> 0, out |-> <<>>]

Init ==
  /\ InitPipe
  /\ queryAngle = 0
  /\ queryLabel = "pending"
  /\ smoothCall = NoSmoothCall
  /\ steady = {}

\* The Magnetometer listener, from the heading of its sample on.
Listener(heading) ==
  /\ subscriptions > 0
  /\ LET newAngle == NewAngle(currentValue, heading)
         newDirection == getCardinalDirection(newAngle)
         fire == Fires(newDirection, lastDirection)
     IN /\ angle' = newAngle
        /\ pulse' = fire
        /\ lastDirection' = Remembers(newDirection, lastDirection)
        /\ prevDirection' = IF samples = 0 THEN "" ELSE getCardinalDirection(angle)
        /\ prevPrimary' = lastPrimary
        /\ lastPrimary' = IF newDirection \in PRIMARY_DIRECTIONS
                            THEN newDirection ELSE lastPrimary
  /\ samples' = IF samples < 2 THEN samples + 1 ELSE 2
  /\ UNCHANGED <<currentValue, subscriptions, queryAngle, queryLabel,
                 smoothCall, steady>>

\* The listener count when subscription.remove() does nothing.
NotRemoved(n) == n

\* The listener count after subscription.remove().
Removed(n) == n - 1

\* Re-render after setAngle changed the state: the effect's cleanup removes
\* the subscription, then the effect runs again with the new `angle`.
Render ==
  /\ subscriptions > 0
  /\ angle # currentValue
  /\ currentValue' = angle
  /\ lastDirection' = getCardinalDirection(angle)
  /\ subscriptions' = Removed(subscriptions) + 1
  /\ UNCHANGED <<angle, pulse, samples, prevDirection, lastPrimary,
                 prevPrimary, queryAngle, queryLabel, smoothCall, steady>>

\* Unmount: the effect's cleanup alone.
Unmount ==
  /\ subscriptions > 0
  /\ subscriptions' = Removed(subscriptions)
  /\ UNCHANGED <<angle, currentValue, lastDirection, pulse, samples,
                 prevDirection, lastPrimary, prevPrimary,
                 queryAngle, queryLabel, smoothCall, steady>>

\* The headings of all modelled samples {x, y}.
Headings == {Heading(y, x) : x \in Components, y \in Components}

\* Magnetometer delivers one sample to the subscribed listener.
Deliver == \E heading \in Headings : Listener(heading)

Next == Deliver \/ Render \/ Unmount

Spec == Init /\ [][Next]_vars

----------------------------------------------------------------------------
\* getCardinalDirection as a function of its argument alone

QueryAngles == (-Deg(360 * MaxTurns))..Deg(360 * MaxTurns)

InitClassify ==
  /\ InitPipe
  /\ queryAngle \in QueryAngles
  /\ queryLabel = "pending"
  /\ smoothCall = NoSmoothCall
  /\ steady = {}

Classify ==
  /\ queryLabel = "pending"
  /\ queryLabel' = getCardinalDirection(queryAngle)
  /\ UNCHANGED <<queryAngle, angle, currentValue, lastDirection,
                 subscriptions, pulse, samples, prevDirection, lastPrimary,
                 prevPrimary, smoothCall, steady>>

NextClassify == Classify

SpecClassify == InitClassify /\ [][NextClassify]_vars

----------------------------------------------------------------------------
\* One smoothing step (lines 48-56) as a function of the captured heading
\* and the raw heading alone

\* Whole-degree headings of [0, 360).
WholeDegrees == {Deg(d) : d \in 0..359}

InitSmooth ==
  /\ InitPipe
  /\ queryAngle = 0
  /\ queryLabel = "pending"
  /\ smoothCall \in [previous : WholeDegrees, rawSample : WholeDegrees,
                      out : {<<>>}]
  /\ steady = {}

Smooth ==
  /\ smoothCall.out = <<>>
  /\ smoothCall' =
       [smoothCall EXCEPT !.out =
          << CorrectedDelta(smoothCall.rawSample, smoothCall.previous),
             NewAngle(smoothCall.previous, smoothCall.rawSample) >>]
  /\ UNCHANGED <<angle, currentValue, lastDirection, subscriptions, pulse,
                 samples, prevDirection, lastPrimary, prevPrimary,
                 queryAngle, queryLabel, steady>>

NextSmooth == Smooth

SpecSmooth == InitSmooth /\ [][NextSmooth]_vars

----------------------------------------------------------------------------
\* The mounted component under a sensor that comes to rest: from some point
\* on every sample has the same raw heading.  Magnetometer keeps delivering
\* samples (setUpdateInterval(100)) and React re-renders after every change
\* of `angle`.

DeliverMoving == steady = {} /\ Deliver

ComeToRest ==
  /\ steady = {}
  /\ \E heading \in Headings \ {NaN} : steady' = {heading}
  /\ UNCHANGED <<angle, currentValue, lastDirection, subscriptions, pulse,
                 samples, prevDirection, lastPrimary, prevPrimary,
                 queryAngle, queryLabel, smoothCall>>

DeliverSteady == \E heading \in steady : Listener(heading)

NextSteady == DeliverMoving \/ ComeToRest \/ DeliverSteady \/ Render

SpecSteady ==
  /\ Init
  /\ [][NextSteady]_vars
  /\ WF_vars(DeliverSteady)
  /\ WF_vars(Render)

----------------------------------------------------------------------------
\* Properties

Labels == {CARDINAL_DIRECTIONS[i].label : i \in 1..Len(CARDINAL_DIRECTIONS)}

\* The label of the latest processed sample (setAngle stored its newAngle).
NewLabel == getCardinalDirection(angle)

\* Headings of the samples that have a NaN or infinite component.
NonFiniteHeadings ==
  {Heading(y, x) : x \in {c \in Components : NonFinite(c, "0")},
                   y \in Components}
  \cup {Heading(y, x) : x \in Components,
                        y \in {c \in Components : NonFinite("0", c)}}

\* The ranges of CARDINAL_DIRECTIONS that contain a normalized angle.
RangesOf(normalizedAngle) ==
  {i \in 1..Len(CARDINAL_DIRECTIONS) :
     Matches(CARDINAL_DIRECTIONS[i], normalizedAngle)}

\* C1: a pulse fires on a sample only when the sample's new label is a
\* primary label that differs from the last primary label seen before it
\* (so N -> NE -> N fires nothing on the return to N).
C1_PulseOnlyOnNewPrimary ==
  pulse => (NewLabel \in PRIMARY_DIRECTIONS /\ NewLabel # prevPrimary)

C3_DeltaWithinHalfTurn ==
  [][\A heading \in Headings :
       (Listener(heading) /\ ~IsNaN(heading) /\ ~IsNaN(currentValue))
         => Abs(CorrectedDelta(heading, currentValue)) <= Deg(180)]_vars

\* C4: a sample with a NaN or infinite component leaves the stored heading
\* and lastDirection unchanged and fires no pulse, and the stored heading is
\* never NaN.
C4_NonFiniteRejected ==
  /\ [](~IsNaN(angle))
  /\ [][\A heading \in NonFiniteHeadings :
          Listener(heading) =>
            (angle' = angle /\ lastDirection' = lastDirection /\ ~pulse')]_vars

\* C5: for an angle in [0, 360) exactly one range matches and its label is
\* returned; an angle equal to a range's min gets that range's label, and
\* 0 gets N.
C5_ExactlyOneRange ==
  (queryLabel # "pending" /\ 0 <= queryAngle /\ queryAngle < Deg(360)) =>
    /\ Cardinality(RangesOf(queryAngle)) = 1
    /\ queryLabel \in Labels
    /\ \A i \in RangesOf(queryAngle) : queryLabel = CARDINAL_DIRECTIONS[i].label
    /\ \A i \in 1..Len(CARDINAL_DIRECTIONS) :
         queryAngle = CARDINAL_DIRECTIONS[i].min
           => queryLabel = CARDINAL_DIRECTIONS[i].label
    /\ (queryAngle = 0 => queryLabel = "N")

\* 22.5 has been classified as NE.
C5_Witness == queryAngle = Half(45) /\ queryLabel = "NE"

\* C6: for every finite angle the label is that of the range containing
\* ((angle mod 360) + 360) mod 360.
C6_LabelOfEquivalentAngle ==
  queryLabel # "pending" =>
    \A i \in RangesOf(JsMod(JsMod(queryAngle, Deg(360)) + Deg(360), Deg(360))) :
      queryLabel = CARDINAL_DIRECTIONS[i].label

\* C7: lastDirection always holds a primary label (stated for the effect
\* runs that captured a number, so that a violation does not rest on NaN).
C7_LastDirectionPrimary ==
  ~IsNaN(currentValue) => lastDirection \in PRIMARY_DIRECTIONS

\* C8: when the two latest processed samples have the same primary new
\* label, the second one fired no pulse.
C8_NoRepeatedPulse ==
  (samples = 2 /\ NewLabel \in PRIMARY_DIRECTIONS /\ prevDirection = NewLabel)
    => ~pulse

\* Two samples in a row were labelled E by a listener whose captured angle
\* is not in E: no re-render happened between them.
C8_Witness ==
  /\ samples = 2 /\ NewLabel = "E" /\ prevDirection = "E"
  /\ getCardinalDirection(currentValue) = "NE" /\ lastDirection = "E"

\* C9: a pulse fires only on a sample whose new label is primary.
C9_PulseOnlyOnPrimary == pulse => NewLabel \in PRIMARY_DIRECTIONS

\* A sample moved the heading from N into NE and fired no pulse.
C9_Witness ==
  /\ samples > 0 /\ NewLabel = "NE" /\ lastDirection = "N"
  /\ angle # currentValue /\ ~pulse

\* C10: a sample whose raw heading equals the stored heading leaves the
\* stored heading, its label and lastDirection unchanged and fires no pulse.
C10_StableInputNoDrift ==
  [][\A heading \in Headings :
       (heading = angle /\ ~IsNaN(heading) /\ Listener(heading))
         => (angle' = angle /\ lastDirection' = lastDirection /\ ~pulse')]_vars

\* C11: for previous and raw headings in [0, 360) the corrected delta is
\* congruent to raw - previous modulo 360 and within [-180, 180], and the
\* new heading is congruent modulo 360 to previous + 0.3 * delta (to the
\* nearest grid unit); previous 350 and raw 10 give delta 20 and 356.
C11_ShortestArcStep ==
  smoothCall.out # <<>> =>
    LET previous == smoothCall.previous
        rawSample == smoothCall.rawSample
        delta == smoothCall.out[1]
        newAngle == smoothCall.out[2]
    IN /\ (delta - (rawSample - previous)) % Deg(360) = 0
       /\ -Deg(180) <= delta /\ delta <= Deg(180)
       /\ \E k \in -1..1 :
            Abs(10 * (newAngle + k * Deg(360)) - (10 * previous + 3 * delta))
              <= 5
       /\ (previous = Deg(350) /\ rawSample = Deg(10))
            => (delta = Deg(20) /\ newAngle = Deg(356))

\* The step from 350 towards 10 has been taken across the 360-0 seam.
C11_Witness ==
  /\ smoothCall.previous = Deg(350) /\ smoothCall.rawSample = Deg(10)
  /\ smoothCall.out = <<Deg(20), Deg(356)>>

\* C12: every processed sample is smoothed starting from the heading the
\* preceding processed sample stored (the stored heading before the step),
\* whether or not the component re-rendered in between.
C12_SmoothedFromStoredHeading ==
  [][\A heading \in Headings :
       (Listener(heading) /\ ~IsNaN(heading) /\ ~IsNaN(angle))
         => angle' = NewAngle(angle, heading)]_vars

\* C13: after finite samples the label of the stored heading, and the label
\* currentDirection of the heading last rendered, is one of the eight
\* labels, never the "" fallback, and the stored heading is strictly
\* between -360 and 360.
C13_LabelNeverEmpty ==
  /\ ~IsNaN(angle) =>
       (NewLabel \in Labels /\ -Deg(360) < angle /\ angle < Deg(360))
  /\ ~IsNaN(currentValue) => getCardinalDirection(currentValue) \in Labels

\* A negative heading whose normalisation is the min of a range has been
\* stored and rendered (-67.5 is labelled NW through 292.5).
C13_Witness ==
  /\ samples > 0 /\ angle < 0 /\ angle = currentValue
  /\ Normalize(angle) \in {CARDINAL_DIRECTIONS[i].min :
                              i \in 1..Len(CARDINAL_DIRECTIONS)}

\* C14: at most one listener is subscribed at any time, and once none is
\* left (after the cleanup at unmount) none is added again and the stored
\* heading, lastDirection and the pulse no longer change.
C14_SingleListener ==
  /\ [](subscriptions \in {0, 1})
  /\ [][subscriptions = 0 =>
          (subscriptions' = 0 /\ angle' = angle /\ pulse' = pulse
           /\ lastDirection' = lastDirection /\ samples' = samples)]_vars

\* The component was unmounted after the effect had re-run and two samples
\* had been processed.
C14_Witness ==
  /\ subscriptions = 0 /\ samples = 2
  /\ ~IsNaN(currentValue) /\ currentValue # 0

\* The circular distance between a stored heading and a raw heading is at
\* most one degree.
Near(a, heading) ==
  /\ ~IsNaN(a)
  /\ LET d == (a - heading) % Deg(360)
     IN d <= Deg(1) \/ Deg(360) - d <= Deg(1)

\* C15: once every sample has the same raw heading h, the stored heading
\* eventually comes and stays within one degree of h.
C15_Converges ==
  <>[](\A heading \in steady : Near(angle, heading))

====
